---- MODULE Spec2Model ----
(***************************************************************************)
(* A model of the rbtree package: the intrusive node graph with its shared *)
(* sentinel, the rotation primitives, the insertion and deletion           *)
(* rebalancing loops, the searches, and the container operations of the    *)
(* unique (Tree) and multi-valued (MultiValuedTree) facades.               *)
(*                                                                         *)
(* A Go pointer is modelled by a cell number: NIL is the nil pointer, cell *)
(* 0 is the package-level sentinel nilChild, cells 1.. are allocated       *)
(* nodes.  Pointer values are observable in Go only through equality, so   *)
(* after each container operation the heap is renamed: the nodes reachable *)
(* from the root are numbered by in-order rank and unreachable nodes are   *)
(* returned to the allocator (garbage collection).                         *)
(***************************************************************************)
EXTENDS Integers, Sequences, FiniteSets, TLC

\* Bounds of the model: the largest tree, the keys a unique tree is driven
\* with, and the keys a multi-valued tree is driven with.  Six nodes are the
\* fewest with which a deletion meets a red sibling (case 2 of
\* balanceAfterDelete); the multi-valued tree reaches them.
MaxSize == 6
MaxKey == 5
MaxDupKey == 3

\* Pointers.
NIL == -1
nilChild == 0
Slots == 1..(MaxSize + 1)
Cells == 0..(MaxSize + 1)

\* ordering
lessThan == -1
equalTo == 0
greaterThan == 1

\* Items are <<key, value>> pairs ordered by key only, like the keyValue type
\* of the tests.  A unique tree is driven with the keys 1..MaxKey, each with
\* the value 0, and one more item that is equal to <<1, 0>> but not identical
\* to it; a multi-valued tree is driven with the keys 1..MaxDupKey.  NoItem
\* is the nil Item.
NoItem == <<>>
KeyValueItems == {<<k, 0>> : k \in 1..MaxKey} \cup {<<1, 1>>}
IntItems == {<<k, 0>> : k \in 1..MaxDupKey}
ItemsOf(k) == IF k = "unique" THEN KeyValueItems ELSE IntItems

Less(a, b) == a[1] < b[1]

VARIABLES kind, black, parent, left, right, item, root, size, fault, last, trail

heapVars == <<black, parent, left, right, item, root, size>>
vars == <<kind, black, parent, left, right, item, root, size, fault, last, trail>>

\* The node graph and the tree struct as one value, threaded through the
\* operators below the way the Go code threads its pointers.  nilWrites
\* collects, during one call, what the setters below store into the sentinel:
\* "black" and "red" for a color, "parent" for a parent pointer.  steps lists,
\* during one call, the iterations of the two rebalancing loops and the
\* rotations, each with the node it is at and the heap it starts from.
Heap == [black |-> black, parent |-> parent, left |-> left, right |-> right,
         item |-> item, root |-> root, size |-> size, nilWrites |-> {},
         steps |-> <<>>]

\* The heap h after noting that the loop or rotation named op starts at x.
Stepped(h, op, x) ==
    [h EXCEPT !.steps = Append(@, [op |-> op, x |-> x,
                                   heap |-> [h EXCEPT !.steps = <<>>]])]

\* node getters and setters
IsRoot(h, n) == h.parent[n] = NIL
HasLeftChild(h, n) == h.left[n] # nilChild
HasRightChild(h, n) == h.right[n] # nilChild
IsBlack(h, n) == h.black[n]
IsRed(h, n) == ~h.black[n]
Noted(h, n, field) == IF n = nilChild THEN h.nilWrites \cup {field} ELSE h.nilWrites
SetBlack(h, n) == [h EXCEPT !.black[n] = TRUE, !.nilWrites = Noted(h, n, "black")]
SetRed(h, n) == [h EXCEPT !.black[n] = FALSE, !.nilWrites = Noted(h, n, "red")]
\* CopyColorOf that leaves the color of n as it was.
CopyColorOfKept(h, n, o) == h

CopyColorOf(h, n, o) ==
    [h EXCEPT !.black[n] = h.black[o],
              !.nilWrites = Noted(h, n, IF h.black[o] THEN "black" ELSE "red")]

Parent(h, n) == h.parent[n]
SetParent(h, n, p) == [h EXCEPT !.parent[n] = p, !.nilWrites = Noted(h, n, "parent")]
IsLeftChildOf(h, n, p) == h.left[p] = n
IsRightChildOf(h, n, p) == h.right[p] = n


\* The smallest cell that is neither reachable from the root nor referenced
\* by the sentinel.
RECURSIVE ReachFrom(_, _, _)
ReachFrom(h, n, fuel) ==
    IF n = NIL \/ n = nilChild \/ fuel = 0 THEN {}
    ELSE {n} \cup ReachFrom(h, h.left[n], fuel - 1)
             \cup ReachFrom(h, h.right[n], fuel - 1)

Reach(h) == ReachFrom(h, h.root, MaxSize + 2)

FreshCell(h) ==
    CHOOSE c \in Slots :
        /\ c \notin Reach(h) \cup {h.parent[nilChild]}
        /\ \A d \in Slots : d < c => d \in Reach(h) \cup {h.parent[nilChild]}

newRedNode(h, c, it) ==
    [h EXCEPT !.black[c] = FALSE, !.item[c] = it, !.left[c] = nilChild,
              !.right[c] = nilChild, !.parent[c] = NIL]

newRedChildNode(h, c, it, p) ==
    [h EXCEPT !.black[c] = FALSE, !.item[c] = it, !.left[c] = nilChild,
              !.right[c] = nilChild, !.parent[c] = p]

\* Returns the minimum-valued node in a given subtree
RECURSIVE min(_, _)
min(h, n) == IF HasLeftChild(h, n) THEN min(h, h.left[n]) ELSE n

\* Returns the maximum-valued node in a given subtree
RECURSIVE max(_, _)
max(h, n) == IF HasRightChild(h, n) THEN max(h, h.right[n]) ELSE n

\* The parent walk of predecessor: for p := n.Parent(); p != nil; n, p = p, p.Parent()
RECURSIVE predecessorWalk(_, _, _)
predecessorWalk(h, n, p) ==
    IF p = NIL THEN NIL
    ELSE IF IsRightChildOf(h, n, p) THEN p
    ELSE predecessorWalk(h, p, Parent(h, p))

\* Returns the in-order predecessor of a given node.
predecessor(h, n) ==
    IF HasLeftChild(h, n) THEN max(h, h.left[n])
    ELSE predecessorWalk(h, n, Parent(h, n))

\* The parent walk of successor.
RECURSIVE successorWalk(_, _, _)
successorWalk(h, n, p) ==
    IF p = NIL THEN NIL
    ELSE IF IsLeftChildOf(h, n, p) THEN p
    ELSE successorWalk(h, p, Parent(h, p))

\* successor that stops at the right child instead of descending to its minimum.
successorRightChild(h, n) ==
    IF HasRightChild(h, n) THEN h.right[n]
    ELSE successorWalk(h, n, Parent(h, n))

\* Returns the in-order successor of a given node.
successor(h, n) ==
    IF HasRightChild(h, n) THEN min(h, h.right[n])
    ELSE successorWalk(h, n, Parent(h, n))

\* The result of a search: the node, the ordering, and whether the search
\* dereferenced the nil pointer (n.item with n == nil panics).
Found(n, ord) == [n |-> n, ord |-> ord, panic |-> FALSE]
NilDeref == [n |-> NIL, ord |-> equalTo, panic |-> TRUE]

RECURSIVE get(_, _, _)
get(h, n, subject) ==
    IF n = NIL THEN NilDeref
    ELSE IF Less(subject, h.item[n])
         THEN IF ~HasLeftChild(h, n) THEN Found(n, lessThan)
              ELSE get(h, h.left[n], subject)
    ELSE IF Less(h.item[n], subject)
         THEN IF ~HasRightChild(h, n) THEN Found(n, greaterThan)
              ELSE get(h, h.right[n], subject)
    ELSE Found(n, equalTo)

RECURSIVE getRightmostInsertionPoint(_, _, _)
getRightmostInsertionPoint(h, n, subject) ==
    IF n = NIL THEN NilDeref
    ELSE IF Less(subject, h.item[n])
         THEN IF ~HasLeftChild(h, n) THEN Found(n, lessThan)
              ELSE getRightmostInsertionPoint(h, h.left[n], subject)
    ELSE IF ~HasRightChild(h, n)
         THEN IF Less(h.item[n], subject) THEN Found(n, greaterThan)
              ELSE Found(n, equalTo)
    ELSE getRightmostInsertionPoint(h, h.right[n], subject)

RECURSIVE getLeftmostInsertionPoint(_, _, _)
getLeftmostInsertionPoint(h, n, subject) ==
    IF n = NIL THEN NilDeref
    ELSE IF Less(h.item[n], subject)
         THEN IF ~HasRightChild(h, n) THEN Found(n, greaterThan)
              ELSE getLeftmostInsertionPoint(h, h.right[n], subject)
    ELSE IF ~HasLeftChild(h, n)
         THEN IF Less(subject, h.item[n]) THEN Found(n, lessThan)
              ELSE Found(n, equalTo)
    ELSE getLeftmostInsertionPoint(h, h.left[n], subject)

\* Rotates the left child of r clockwise so that it becomes the new parent
\* of r, without fixing the child pointer of r's previous parent.
rotateRightNoFixup(h, r) ==
    LET pivot == h.left[r]
        orphan == h.right[pivot]
        h1 == [Stepped(h, "rotateRightNoFixup", r) EXCEPT !.left[r] = orphan]
        h2 == SetParent(h1, orphan, r)
        h3 == SetParent(h2, pivot, Parent(h2, r))
        h4 == [h3 EXCEPT !.right[pivot] = r]
    IN SetParent(h4, r, pivot)

\* rotateLeftNoFixup that forgets the orphan's parent pointer.
rotateLeftNoFixupOrphanKept(h, r) ==
    LET pivot == h.right[r]
        orphan == h.left[pivot]
        h1 == [h EXCEPT !.right[r] = orphan]
        h3 == SetParent(h1, pivot, Parent(h1, r))
        h4 == [h3 EXCEPT !.left[pivot] = r]
    IN SetParent(h4, r, pivot)

\* Same as rotateRightNoFixup, but rotates the right child of r counterclockwise.
rotateLeftNoFixup(h, r) ==
    LET pivot == h.right[r]
        orphan == h.left[pivot]
        h1 == [Stepped(h, "rotateLeftNoFixup", r) EXCEPT !.right[r] = orphan]
        h2 == SetParent(h1, orphan, r)
        h3 == SetParent(h2, pivot, Parent(h2, r))
        h4 == [h3 EXCEPT !.left[pivot] = r]
    IN SetParent(h4, r, pivot)

\* Performs step 3 of a rotation.
fixupAfterRotate(h, oldRoot) ==
    LET newRoot == Parent(h, oldRoot)
        par == Parent(h, newRoot)
    IN IF par = NIL THEN [h EXCEPT !.root = newRoot]
       ELSE IF h.left[par] = oldRoot THEN [h EXCEPT !.left[par] = newRoot]
       ELSE IF h.right[par] = oldRoot THEN [h EXCEPT !.right[par] = newRoot]
       ELSE h

\* balanceAfterInsert that iterates once more, at the grandparent, after the
\* rotation of case 5.
RECURSIVE balanceAfterInsertOnward(_, _)
balanceAfterInsertOnward(h0, x) ==
    LET h == Stepped(h0, "balanceAfterInsert", x) IN
    \* Case 1: x is the root node.
    IF IsRoot(h, x) THEN [SetBlack(h, x) EXCEPT !.root = x]
    ELSE
    LET par == Parent(h, x) IN
    \* Case 2: the node's parent is black.
    IF IsBlack(h, par) THEN h
    ELSE
    LET gparent == Parent(h, par) IN
    IF IsLeftChildOf(h, par, gparent)
    THEN LET uncle == h.right[gparent] IN
         \* Case 3
         IF IsRed(h, uncle)
         THEN balanceAfterInsertOnward(SetRed(SetBlack(SetBlack(h, par), uncle), gparent), gparent)
         ELSE
         \* Case 4
         LET inner == IsRightChildOf(h, x, par)
             h4 == IF inner
                   THEN [rotateLeftNoFixup(h, par) EXCEPT !.left[gparent] = x]
                   ELSE h
             par5 == IF inner THEN x ELSE par
             \* Case 5
             h5 == SetRed(SetBlack(h4, par5), gparent)
         IN balanceAfterInsertOnward(
                fixupAfterRotate(rotateRightNoFixup(h5, gparent), gparent), gparent)
    ELSE LET uncle == h.left[gparent] IN
         \* Case 3
         IF IsRed(h, uncle)
         THEN balanceAfterInsertOnward(SetRed(SetBlack(SetBlack(h, par), uncle), gparent), gparent)
         ELSE
         \* Case 4
         LET inner == h.left[par] = x
             h4 == IF inner
                   THEN [rotateRightNoFixup(h, par) EXCEPT !.right[gparent] = x]
                   ELSE h
             par5 == IF inner THEN x ELSE par
             \* Case 5
             h5 == SetRed(SetBlack(h4, par5), gparent)
         IN balanceAfterInsertOnward(
                fixupAfterRotate(rotateLeftNoFixup(h5, gparent), gparent), gparent)

\* balanceAfterInsertParentKept that forgets parent.SetBlack() in the left-handed case 5.
RECURSIVE balanceAfterInsertParentKept(_, _)
balanceAfterInsertParentKept(h, x) ==
    \* Case 1: x is the root node.
    IF IsRoot(h, x) THEN [SetBlack(h, x) EXCEPT !.root = x]
    ELSE
    LET par == Parent(h, x) IN
    \* Case 2: the node's parent is black.
    IF IsBlack(h, par) THEN h
    ELSE
    LET gparent == Parent(h, par) IN
    IF IsLeftChildOf(h, par, gparent)
    THEN LET uncle == h.right[gparent] IN
         \* Case 3
         IF IsRed(h, uncle)
         THEN balanceAfterInsertParentKept(SetRed(SetBlack(SetBlack(h, par), uncle), gparent), gparent)
         ELSE
         \* Case 4
         LET inner == IsRightChildOf(h, x, par)
             h4 == IF inner
                   THEN [rotateLeftNoFixup(h, par) EXCEPT !.left[gparent] = x]
                   ELSE h
             par5 == IF inner THEN x ELSE par
             \* Case 5
             h5 == SetRed(h4, gparent)
         IN fixupAfterRotate(rotateRightNoFixup(h5, gparent), gparent)
    ELSE LET uncle == h.left[gparent] IN
         \* Case 3
         IF IsRed(h, uncle)
         THEN balanceAfterInsertParentKept(SetRed(SetBlack(SetBlack(h, par), uncle), gparent), gparent)
         ELSE
         \* Case 4
         LET inner == h.left[par] = x
             h4 == IF inner
                   THEN [rotateRightNoFixup(h, par) EXCEPT !.right[gparent] = x]
                   ELSE h
             par5 == IF inner THEN x ELSE par
             \* Case 5
             h5 == SetRed(SetBlack(h4, par5), gparent)
         IN fixupAfterRotate(rotateLeftNoFixup(h5, gparent), gparent)

\* Balances a tree after inserting a node x.
RECURSIVE balanceAfterInsert(_, _)
balanceAfterInsert(h0, x) ==
    LET h == Stepped(h0, "balanceAfterInsert", x) IN
    \* Case 1: x is the root node.
    IF IsRoot(h, x) THEN [SetBlack(h, x) EXCEPT !.root = x]
    ELSE
    LET par == Parent(h, x) IN
    \* Case 2: the node's parent is black.
    IF IsBlack(h, par) THEN h
    ELSE
    LET gparent == Parent(h, par) IN
    IF IsLeftChildOf(h, par, gparent)
    THEN LET uncle == h.right[gparent] IN
         \* Case 3
         IF IsRed(h, uncle)
         THEN balanceAfterInsert(SetRed(SetBlack(SetBlack(h, par), uncle), gparent), gparent)
         ELSE
         \* Case 4
         LET inner == IsRightChildOf(h, x, par)
             h4 == IF inner
                   THEN [rotateLeftNoFixup(h, par) EXCEPT !.left[gparent] = x]
                   ELSE h
             par5 == IF inner THEN x ELSE par
             \* Case 5
             h5 == SetRed(SetBlack(h4, par5), gparent)
         IN fixupAfterRotate(rotateRightNoFixup(h5, gparent), gparent)
    ELSE LET uncle == h.left[gparent] IN
         \* Case 3
         IF IsRed(h, uncle)
         THEN balanceAfterInsert(SetRed(SetBlack(SetBlack(h, par), uncle), gparent), gparent)
         ELSE
         \* Case 4
         LET inner == h.left[par] = x
             h4 == IF inner
                   THEN [rotateRightNoFixup(h, par) EXCEPT !.right[gparent] = x]
                   ELSE h
             par5 == IF inner THEN x ELSE par
             \* Case 5
             h5 == SetRed(SetBlack(h4, par5), gparent)
         IN fixupAfterRotate(rotateLeftNoFixup(h5, gparent), gparent)

\* balanceAfterDelete that goes on with the parent after case 5 instead of
\* returning.
RECURSIVE balanceAfterDeleteOnward(_, _)
balanceAfterDeleteOnward(h0, x) ==
    LET h == Stepped(h0, "balanceAfterDelete", x) IN
    \* Case 1: x is the root node.
    IF IsRoot(h, x) THEN [h EXCEPT !.root = x]
    ELSE
    LET par == Parent(h, x) IN
    IF IsLeftChildOf(h, x, par)
    THEN LET sibling0 == h.right[par]
             \* Case 2 - left rotate at parent
             case2 == IsRed(h, sibling0)
             h2 == IF case2
                   THEN fixupAfterRotate(
                            rotateLeftNoFixup(SetBlack(SetRed(h, par), sibling0), par), par)
                   ELSE h
             sibling == IF case2 THEN h2.right[par] ELSE sibling0
             leftNiece == h2.left[sibling]
             rightNiece == h2.right[sibling]
         IN \* Case 3 - sibling color flip
            IF IsBlack(h2, sibling) /\ IsBlack(h2, leftNiece) /\ IsBlack(h2, rightNiece)
            THEN LET h3 == SetRed(h2, sibling) IN
                 IF IsRed(h3, par) THEN SetBlack(h3, par)
                 ELSE balanceAfterDeleteOnward(h3, par)
            ELSE
            \* Case 4 - right rotate at sibling
            LET case4 == IsRed(h2, leftNiece) /\ IsBlack(h2, rightNiece)
                h4 == IF case4
                      THEN [rotateRightNoFixup(
                                SetRed(SetBlack(h2, leftNiece), sibling), sibling)
                            EXCEPT !.right[par] = leftNiece]
                      ELSE h2
                sibling5 == IF case4 THEN leftNiece ELSE sibling
                rightNiece5 == IF case4 THEN sibling ELSE rightNiece
                \* Case 5 - left rotate at parent + color flips
                h5 == SetBlack(SetBlack(CopyColorOf(h4, sibling5, par), par), rightNiece5)
            IN balanceAfterDeleteOnward(
                   fixupAfterRotate(rotateLeftNoFixup(h5, par), par), par)
    ELSE LET sibling0 == h.left[par]
             \* Case 2
             case2 == IsRed(h, sibling0)
             h2 == IF case2
                   THEN fixupAfterRotate(
                            rotateRightNoFixup(SetBlack(SetRed(h, par), sibling0), par), par)
                   ELSE h
             sibling == IF case2 THEN h2.left[par] ELSE sibling0
             leftNiece == h2.left[sibling]
             rightNiece == h2.right[sibling]
         IN \* Case 3
            IF IsBlack(h2, sibling) /\ IsBlack(h2, leftNiece) /\ IsBlack(h2, rightNiece)
            THEN LET h3 == SetRed(h2, sibling) IN
                 IF IsRed(h3, par) THEN SetBlack(h3, par)
                 ELSE balanceAfterDeleteOnward(h3, par)
            ELSE
            \* Case 4
            LET case4 == IsBlack(h2, leftNiece) /\ IsRed(h2, rightNiece)
                h4 == IF case4
                      THEN [rotateLeftNoFixup(
                                SetRed(SetBlack(h2, rightNiece), sibling), sibling)
                            EXCEPT !.left[par] = rightNiece]
                      ELSE h2
                sibling5 == IF case4 THEN rightNiece ELSE sibling
                leftNiece5 == IF case4 THEN sibling ELSE leftNiece
                \* Case 5
                h5 == SetBlack(SetBlack(CopyColorOf(h4, sibling5, par), par), leftNiece5)
            IN balanceAfterDeleteOnward(
                   fixupAfterRotate(rotateRightNoFixup(h5, par), par), par)

\* Balances a tree after deleting a node which used to occupy the same place
\* in the tree as x.
RECURSIVE balanceAfterDelete(_, _)
balanceAfterDelete(h0, x) ==
    LET h == Stepped(h0, "balanceAfterDelete", x) IN
    \* Case 1: x is the root node.
    IF IsRoot(h, x) THEN [h EXCEPT !.root = x]
    ELSE
    LET par == Parent(h, x) IN
    IF IsLeftChildOf(h, x, par)
    THEN LET sibling0 == h.right[par]
             \* Case 2 - left rotate at parent
             case2 == IsRed(h, sibling0)
             h2 == IF case2
                   THEN fixupAfterRotate(
                            rotateLeftNoFixup(SetBlack(SetRed(h, par), sibling0), par), par)
                   ELSE h
             sibling == IF case2 THEN h2.right[par] ELSE sibling0
             leftNiece == h2.left[sibling]
             rightNiece == h2.right[sibling]
         IN \* Case 3 - sibling color flip
            IF IsBlack(h2, sibling) /\ IsBlack(h2, leftNiece) /\ IsBlack(h2, rightNiece)
            THEN LET h3 == SetRed(h2, sibling) IN
                 IF IsRed(h3, par) THEN SetBlack(h3, par)
                 ELSE balanceAfterDelete(h3, par)
            ELSE
            \* Case 4 - right rotate at sibling
            LET case4 == IsRed(h2, leftNiece) /\ IsBlack(h2, rightNiece)
                h4 == IF case4
                      THEN [rotateRightNoFixup(
                                SetRed(SetBlack(h2, leftNiece), sibling), sibling)
                            EXCEPT !.right[par] = leftNiece]
                      ELSE h2
                sibling5 == IF case4 THEN leftNiece ELSE sibling
                rightNiece5 == IF case4 THEN sibling ELSE rightNiece
                \* Case 5 - left rotate at parent + color flips
                h5 == SetBlack(SetBlack(CopyColorOf(h4, sibling5, par), par), rightNiece5)
            IN fixupAfterRotate(rotateLeftNoFixup(h5, par), par)
    ELSE LET sibling0 == h.left[par]
             \* Case 2
             case2 == IsRed(h, sibling0)
             h2 == IF case2
                   THEN fixupAfterRotate(
                            rotateRightNoFixup(SetBlack(SetRed(h, par), sibling0), par), par)
                   ELSE h
             sibling == IF case2 THEN h2.left[par] ELSE sibling0
             leftNiece == h2.left[sibling]
             rightNiece == h2.right[sibling]
         IN \* Case 3
            IF IsBlack(h2, sibling) /\ IsBlack(h2, leftNiece) /\ IsBlack(h2, rightNiece)
            THEN LET h3 == SetRed(h2, sibling) IN
                 IF IsRed(h3, par) THEN SetBlack(h3, par)
                 ELSE balanceAfterDelete(h3, par)
            ELSE
            \* Case 4
            LET case4 == IsBlack(h2, leftNiece) /\ IsRed(h2, rightNiece)
                h4 == IF case4
                      THEN [rotateLeftNoFixup(
                                SetRed(SetBlack(h2, rightNiece), sibling), sibling)
                            EXCEPT !.left[par] = rightNiece]
                      ELSE h2
                sibling5 == IF case4 THEN rightNiece ELSE sibling
                leftNiece5 == IF case4 THEN sibling ELSE leftNiece
                \* Case 5
                h5 == SetBlack(SetBlack(CopyColorOf(h4, sibling5, par), par), leftNiece5)
            IN fixupAfterRotate(rotateRightNoFixup(h5, par), par)

\* deleteNode that does not force the child black when it becomes the root.
deleteNodeRootKept(h, x) ==
    LET deleted == h.item[x]
        two == HasLeftChild(h, x) /\ HasRightChild(h, x)
        succ == min(h, h.right[x])
        h1 == IF two THEN [h EXCEPT !.item[x] = h.item[succ]] ELSE h
        x1 == IF two THEN succ ELSE x
        child == IF ~HasLeftChild(h1, x1) THEN h1.right[x1] ELSE h1.left[x1]
        par == Parent(h1, x1)
        h2 == SetParent(h1, child, par)
    IN IF IsRoot(h2, x1)
       THEN [h |-> [h2 EXCEPT !.root = child], deleted |-> deleted]
       ELSE
       LET h3 == IF IsLeftChildOf(h2, x1, par)
                 THEN [h2 EXCEPT !.left[par] = child]
                 ELSE [h2 EXCEPT !.right[par] = child]
       IN IF IsRed(h3, x1) THEN [h |-> h3, deleted |-> deleted]
          ELSE IF IsRed(h3, child) THEN [h |-> SetBlack(h3, child), deleted |-> deleted]
          ELSE [h |-> balanceAfterDelete(h3, child), deleted |-> deleted]

\* deleteNode that unlinks the successor without taking its item.
deleteNodeItemKept(h, x) ==
    LET deleted == h.item[x]
        two == HasLeftChild(h, x) /\ HasRightChild(h, x)
        succ == min(h, h.right[x])
        h1 == h
        x1 == IF two THEN succ ELSE x
        child == IF ~HasLeftChild(h1, x1) THEN h1.right[x1] ELSE h1.left[x1]
        par == Parent(h1, x1)
        h2 == SetParent(h1, child, par)
    IN IF IsRoot(h2, x1)
       THEN [h |-> [SetBlack(h2, child) EXCEPT !.root = child], deleted |-> deleted]
       ELSE
       LET h3 == IF IsLeftChildOf(h2, x1, par)
                 THEN [h2 EXCEPT !.left[par] = child]
                 ELSE [h2 EXCEPT !.right[par] = child]
       IN IF IsRed(h3, x1) THEN [h |-> h3, deleted |-> deleted]
          ELSE IF IsRed(h3, child) THEN [h |-> SetBlack(h3, child), deleted |-> deleted]
          ELSE [h |-> balanceAfterDelete(h3, child), deleted |-> deleted]

\* deleteNode that colors the child red when it becomes the root.
deleteNodeRootRed(h, x) ==
    LET deleted == h.item[x]
        two == HasLeftChild(h, x) /\ HasRightChild(h, x)
        succ == min(h, h.right[x])
        h1 == IF two THEN [h EXCEPT !.item[x] = h.item[succ]] ELSE h
        x1 == IF two THEN succ ELSE x
        child == IF ~HasLeftChild(h1, x1) THEN h1.right[x1] ELSE h1.left[x1]
        par == Parent(h1, x1)
        h2 == SetParent(h1, child, par)
    IN IF IsRoot(h2, x1)
       THEN [h |-> [SetRed(h2, child) EXCEPT !.root = child], deleted |-> deleted]
       ELSE
       LET h3 == IF IsLeftChildOf(h2, x1, par)
                 THEN [h2 EXCEPT !.left[par] = child]
                 ELSE [h2 EXCEPT !.right[par] = child]
       IN IF IsRed(h3, x1) THEN [h |-> h3, deleted |-> deleted]
          ELSE IF IsRed(h3, child) THEN [h |-> SetBlack(h3, child), deleted |-> deleted]
          ELSE [h |-> balanceAfterDelete(h3, child), deleted |-> deleted]

\* Unlinks x (or its in-order successor, after taking its item) from the
\* tree; yields the new heap and the deleted item.
deleteNode(h, x) ==
    LET deleted == h.item[x]
        two == HasLeftChild(h, x) /\ HasRightChild(h, x)
        succ == min(h, h.right[x])
        h1 == IF two THEN [h EXCEPT !.item[x] = h.item[succ]] ELSE h
        x1 == IF two THEN succ ELSE x
        \* x1 now has at most one non-leaf child
        child == IF ~HasLeftChild(h1, x1) THEN h1.right[x1] ELSE h1.left[x1]
        par == Parent(h1, x1)
        h2 == SetParent(h1, child, par)
    IN IF IsRoot(h2, x1)
       THEN [h |-> [SetBlack(h2, child) EXCEPT !.root = child], deleted |-> deleted]
       ELSE
       LET h3 == IF IsLeftChildOf(h2, x1, par)
                 THEN [h2 EXCEPT !.left[par] = child]
                 ELSE [h2 EXCEPT !.right[par] = child]
       IN IF IsRed(h3, x1) THEN [h |-> h3, deleted |-> deleted]
          ELSE IF IsRed(h3, child) THEN [h |-> SetBlack(h3, child), deleted |-> deleted]
          ELSE [h |-> balanceAfterDelete(h3, child), deleted |-> deleted]

\* Returns true if the number of items in the tree is zero
Empty(h) == h.root = NIL

\* tree.Insert that attaches the new node at the leftmost insertion point.
InsertLeftmost(h, it) ==
    LET n == FreshCell(h)
        h1 == [newRedNode(h, n, it) EXCEPT !.size = @ + 1]
    IN IF Empty(h1) THEN [SetBlack(h1, n) EXCEPT !.root = n]
       ELSE
       LET r == getLeftmostInsertionPoint(h1, h1.root, it)
           place == r.n
           h2 == SetParent(h1, n, place)
           h3 == IF r.ord = greaterThan
                 THEN [h2 EXCEPT !.right[place] = n]
                 ELSE [h2 EXCEPT !.left[place] = n]
       IN balanceAfterInsert(h3, n)

\* tree.Insert: the multi-valued insertion.
Insert(h, it) ==
    LET n == FreshCell(h)
        h1 == [newRedNode(h, n, it) EXCEPT !.size = @ + 1]
    IN IF Empty(h1) THEN [SetBlack(h1, n) EXCEPT !.root = n]
       ELSE
       LET r == getRightmostInsertionPoint(h1, h1.root, it)
           place == r.n
           h2 == SetParent(h1, n, place)
           h3 == IF r.ord \in {greaterThan, equalTo}
                 THEN [h2 EXCEPT !.right[place] = n]
                 ELSE [h2 EXCEPT !.left[place] = n]
       IN balanceAfterInsert(h3, n)

\* insertUniqueOrReturnPlace that attaches the new node on the wrong side.
insertUniqueOrReturnPlaceSwapped(h, it) ==
    IF Empty(h)
    THEN LET n == FreshCell(h)
             h1 == SetBlack(newRedNode(h, n, it), n)
         IN [h |-> [h1 EXCEPT !.size = @ + 1, !.root = n], place |-> NIL]
    ELSE
    LET r == get(h, h.root, it)
        place == r.n
    IN IF r.ord = equalTo THEN [h |-> h, place |-> place]
       ELSE
       LET n == FreshCell(h)
           h1 == [newRedChildNode(h, n, it, place) EXCEPT !.size = @ + 1]
           h2 == IF r.ord = greaterThan
                 THEN [h1 EXCEPT !.left[place] = n]
                 ELSE [h1 EXCEPT !.right[place] = n]
       IN [h |-> balanceAfterInsert(h2, n), place |-> NIL]

\* insertUniqueOrReturnPlace that counts the item before it looks for it.
insertUniqueOrReturnPlaceCounted(h, it) ==
    IF Empty(h)
    THEN LET n == FreshCell(h)
             h1 == SetBlack(newRedNode(h, n, it), n)
         IN [h |-> [h1 EXCEPT !.size = @ + 1, !.root = n], place |-> NIL]
    ELSE
    LET h0 == [h EXCEPT !.size = @ + 1]
        r == get(h0, h0.root, it)
        place == r.n
    IN IF r.ord = equalTo THEN [h |-> h0, place |-> place]
       ELSE
       LET n == FreshCell(h0)
           h1 == newRedChildNode(h0, n, it, place)
           h2 == IF r.ord = greaterThan
                 THEN [h1 EXCEPT !.right[place] = n]
                 ELSE [h1 EXCEPT !.left[place] = n]
       IN [h |-> balanceAfterInsert(h2, n), place |-> NIL]

\* Tries to insert a unique item into the tree.  Yields the new heap and the
\* node holding an equal item, or NIL when the item was inserted.
insertUniqueOrReturnPlace(h, it) ==
    IF Empty(h)
    THEN LET n == FreshCell(h)
             h1 == SetBlack(newRedNode(h, n, it), n)
         IN [h |-> [h1 EXCEPT !.size = @ + 1, !.root = n], place |-> NIL]
    ELSE
    LET r == get(h, h.root, it)
        place == r.n
    IN IF r.ord = equalTo THEN [h |-> h, place |-> place]
       ELSE
       LET n == FreshCell(h)
           h1 == [newRedChildNode(h, n, it, place) EXCEPT !.size = @ + 1]
           h2 == IF r.ord = greaterThan
                 THEN [h1 EXCEPT !.right[place] = n]
                 ELSE [h1 EXCEPT !.left[place] = n]
       IN [h |-> balanceAfterInsert(h2, n), place |-> NIL]

\* Yields the new heap and the boolean result.
InsertUnique(h, it) ==
    LET r == insertUniqueOrReturnPlace(h, it)
    IN [h |-> r.h, ok |-> r.place = NIL]

\* InsertOrReplace that returns the stored item and leaves it in its node.
InsertOrReplaceKept(h, it) ==
    LET r == insertUniqueOrReturnPlace(h, it)
    IN IF r.place # NIL
       THEN [h |-> r.h, old |-> r.h.item[r.place]]
       ELSE [h |-> r.h, old |-> NoItem]

\* Yields the new heap and the item previously in the tree (NoItem for nil).
InsertOrReplace(h, it) ==
    LET r == insertUniqueOrReturnPlace(h, it)
    IN IF r.place # NIL
       THEN [h |-> [r.h EXCEPT !.item[r.place] = it], old |-> r.h.item[r.place]]
       ELSE [h |-> r.h, old |-> NoItem]

\* Clear that resets the size only.
ClearSizeOnly(h) == [h EXCEPT !.size = 0]

\* Clear that resets the root only.
ClearRootOnly(h) == [h EXCEPT !.root = NIL]

\* Removes all items from the tree.
Clear(h) == [h EXCEPT !.size = 0, !.root = NIL]

\* Delete that leaves the root as deleteNode left it.
DeleteRootKept(h, it) ==
    LET r == get(h, h.root, it)
    IN IF r.panic THEN [h |-> h, deleted |-> NoItem, panic |-> TRUE]
       ELSE IF r.ord # equalTo THEN [h |-> h, deleted |-> NoItem, panic |-> FALSE]
       ELSE
       LET d == deleteNode(h, r.n)
           h1 == [d.h EXCEPT !.size = @ - 1]
       IN [h |-> h1, deleted |-> d.deleted, panic |-> FALSE]

\* Yields the new heap, the deleted item (NoItem for nil), and whether the
\* call panicked.
Delete(h, it) ==
    LET r == get(h, h.root, it)
    IN IF r.panic THEN [h |-> h, deleted |-> NoItem, panic |-> TRUE]
       ELSE IF r.ord # equalTo THEN [h |-> h, deleted |-> NoItem, panic |-> FALSE]
       ELSE
       LET d == deleteNode(h, r.n)
           h1 == [d.h EXCEPT !.size = @ - 1]
           h2 == IF h1.root = nilChild THEN [h1 EXCEPT !.root = NIL] ELSE h1
       IN [h |-> h2, deleted |-> d.deleted, panic |-> FALSE]

\* Iterator{nil}
End == NIL

\* Yields the iterator's node, the boolean, and whether the call panicked.
Find(h, it) ==
    LET r == get(h, h.root, it)
    IN IF r.panic THEN [node |-> End, ok |-> FALSE, panic |-> TRUE]
       ELSE IF r.ord = equalTo THEN [node |-> r.n, ok |-> TRUE, panic |-> FALSE]
       ELSE [node |-> End, ok |-> FALSE, panic |-> FALSE]

\* Yields the iterator's node and whether the call panicked.
LowerBound(h, target) ==
    LET r == getLeftmostInsertionPoint(h, h.root, target)
    IN IF r.panic THEN [node |-> End, panic |-> TRUE]
       ELSE IF r.ord = greaterThan THEN [node |-> successor(h, r.n), panic |-> FALSE]
       ELSE [node |-> r.n, panic |-> FALSE]

\* UpperBound that takes the successor unless the target is greater.
UpperBoundUnlessGreater(h, target) ==
    LET r == getRightmostInsertionPoint(h, h.root, target)
    IN IF r.panic THEN [node |-> End, panic |-> TRUE]
       ELSE IF r.ord # greaterThan THEN [node |-> successor(h, r.n), panic |-> FALSE]
       ELSE [node |-> r.n, panic |-> FALSE]

\* Yields the iterator's node and whether the call panicked.
UpperBound(h, target) ==
    LET r == getRightmostInsertionPoint(h, h.root, target)
    IN IF r.panic THEN [node |-> End, panic |-> TRUE]
       ELSE IF r.ord # lessThan THEN [node |-> successor(h, r.n), panic |-> FALSE]
       ELSE [node |-> r.n, panic |-> FALSE]

\* Returns the node of an iterator pointing to the minimum item, or End.
First(h) == IF Empty(h) THEN End ELSE min(h, h.root)

\* Returns the node of an iterator pointing to the maximum item, or End.
Last(h) == IF Empty(h) THEN End ELSE max(h, h.root)

\* Min that returns the item of the root.
MinOfRoot(h) == IF Empty(h) THEN NoItem ELSE h.item[h.root]

\* Returns the minimum item in the tree, NoItem (nil) if the tree is empty.
Min(h) == IF Empty(h) THEN NoItem ELSE h.item[min(h, h.root)]

\* Returns the maximum item in the tree, NoItem (nil) if the tree is empty.
Max(h) == IF Empty(h) THEN NoItem ELSE h.item[max(h, h.root)]

\* Iterator.Next and Iterator.Prev on an iterator whose node is n.
IteratorNext(h, n) == successor(h, n)
IteratorPrev(h, n) == predecessor(h, n)

\* The nodes of the tree in in-order (left subtree, node, right subtree).
RECURSIVE InOrderFrom(_, _, _)
InOrderFrom(h, n, fuel) ==
    IF n = NIL \/ n = nilChild \/ fuel = 0 THEN <<>>
    ELSE InOrderFrom(h, h.left[n], fuel - 1) \o <<n>>
             \o InOrderFrom(h, h.right[n], fuel - 1)

InOrder(h) == InOrderFrom(h, h.root, MaxSize + 2)

\* The heap h with its live nodes, listed in seq, named by their rank in seq.
\* A reclaimed node that the sentinel's parent field still references keeps a
\* cell of its own, one past the live ones.
Renamed(h, seq) ==
    LET n == Len(seq)
        live == {seq[i] : i \in 1..n}
        rank == [c \in Cells \cup {NIL} |->
                    IF c = NIL \/ c = nilChild THEN c
                    ELSE IF c \in live THEN CHOOSE i \in 1..n : seq[i] = c
                    ELSE n + 1]
        old == [c \in 0..n |-> IF c = nilChild THEN nilChild ELSE seq[c]]
    IN IF n > MaxSize \/ Cardinality(live) # n THEN h
       ELSE [black  |-> [c \in Cells |-> IF c <= n THEN h.black[old[c]] ELSE FALSE],
             parent |-> [c \in Cells |-> IF c <= n THEN rank[h.parent[old[c]]] ELSE NIL],
             left   |-> [c \in Cells |-> IF c <= n THEN rank[h.left[old[c]]] ELSE NIL],
             right  |-> [c \in Cells |-> IF c <= n THEN rank[h.right[old[c]]] ELSE NIL],
             item   |-> [c \in Cells |-> IF c <= n THEN h.item[old[c]] ELSE NoItem],
             root   |-> rank[h.root],
             size   |-> h.size,
             nilWrites |-> {},
             steps  |-> <<>>]

\* The heap after garbage collection, with the live nodes named by their
\* in-order rank.
Collect(h) == CHOOSE r \in {Renamed(h, seq) : seq \in {InOrder(h)}} : TRUE

\* The outcome of the last call: its name, its argument, and what it returned.
Outcome(op, arg, ok, node, it) ==
    [op |-> op, arg |-> arg, ok |-> ok, node |-> node, item |-> it]

\* The names of the loop iterations and rotations of one call, in order.
Trail(h) == [i \in 1..Len(h.steps) |-> h.steps[i].op]

Store(h) ==
    /\ black' = h.black
    /\ parent' = h.parent
    /\ left' = h.left
    /\ right' = h.right
    /\ item' = h.item
    /\ root' = h.root
    /\ size' = h.size

\* New() / NewMultiValued(): the zero tree; nilChild = &node{black: true}.
Init ==
    /\ kind \in {"unique", "multi"}
    /\ black = [c \in Cells |-> c = nilChild]
    /\ parent = [c \in Cells |-> NIL]
    /\ left = [c \in Cells |-> NIL]
    /\ right = [c \in Cells |-> NIL]
    /\ item = [c \in Cells |-> NoItem]
    /\ root = NIL
    /\ size = 0
    /\ fault = FALSE
    /\ last = Outcome("New", NoItem, TRUE, NIL, NoItem)
    /\ trail = <<>>

\* MultiValuedTree.Insert
CallInsert(it) ==
    /\ ~fault /\ kind = "multi" /\ size < MaxSize
    /\ \E h \in {Insert(Heap, it)} : \E g \in {Collect(h)} :
          Store(g) /\ trail' = Trail(h)
    /\ last' = Outcome("Insert", it, TRUE, NIL, NoItem)
    /\ UNCHANGED <<kind, fault>>

\* Tree.Insert
CallInsertUnique(it) ==
    /\ ~fault /\ kind = "unique" /\ size < MaxSize
    /\ \E r \in {InsertUnique(Heap, it)} : \E g \in {Collect(r.h)} :
          /\ Store(g)
          /\ last' = Outcome("InsertUnique", it, r.ok, NIL, NoItem)
          /\ trail' = Trail(r.h)
    /\ UNCHANGED <<kind, fault>>

\* Tree.InsertOrReplace
CallInsertOrReplace(it) ==
    /\ ~fault /\ kind = "unique" /\ size < MaxSize
    /\ \E r \in {InsertOrReplace(Heap, it)} : \E g \in {Collect(r.h)} :
          /\ Store(g)
          /\ last' = Outcome("InsertOrReplace", it, r.old # NoItem, NIL, r.old)
          /\ trail' = Trail(r.h)
    /\ UNCHANGED <<kind, fault>>

\* Tree.Clear / MultiValuedTree.Clear
CallClear ==
    /\ ~fault
    /\ \E h \in {Clear(Heap)} : \E g \in {Collect(h)} :
          Store(g) /\ trail' = Trail(h)
    /\ last' = Outcome("Clear", NoItem, TRUE, NIL, NoItem)
    /\ UNCHANGED <<kind, fault>>

\* Tree.Delete / MultiValuedTree.Delete
CallDelete(it) ==
    /\ ~fault
    /\ \E r \in {Delete(Heap, it)} : \E g \in {Collect(r.h)} :
          /\ Store(g)
          /\ fault' = r.panic
          /\ last' = Outcome("Delete", it, r.deleted # NoItem, NIL, r.deleted)
          /\ trail' = Trail(r.h)
    /\ UNCHANGED kind

\* Tree.Find
CallFind(it) ==
    /\ ~fault
    /\ \E r \in {Find(Heap, it)} :
          /\ fault' = r.panic
          /\ last' = Outcome("Find", it, r.ok, r.node,
                             IF r.node = NIL THEN NoItem ELSE item[r.node])
    /\ trail' = <<>>
    /\ UNCHANGED <<kind, heapVars>>

\* Tree.LowerBound / MultiValuedTree.LowerBound
CallLowerBound(it) ==
    /\ ~fault
    /\ \E r \in {LowerBound(Heap, it)} :
          /\ fault' = r.panic
          /\ last' = Outcome("LowerBound", it, r.node # NIL, r.node,
                             IF r.node = NIL THEN NoItem ELSE item[r.node])
    /\ trail' = <<>>
    /\ UNCHANGED <<kind, heapVars>>

\* Tree.UpperBound / MultiValuedTree.UpperBound
CallUpperBound(it) ==
    /\ ~fault
    /\ \E r \in {UpperBound(Heap, it)} :
          /\ fault' = r.panic
          /\ last' = Outcome("UpperBound", it, r.node # NIL, r.node,
                             IF r.node = NIL THEN NoItem ELSE item[r.node])
    /\ trail' = <<>>
    /\ UNCHANGED <<kind, heapVars>>

Next ==
    \/ \E it \in ItemsOf(kind) : CallInsert(it)
    \/ \E it \in ItemsOf(kind) : CallInsertUnique(it)
    \/ \E it \in ItemsOf(kind) : CallInsertOrReplace(it)
    \/ CallClear
    \/ \E it \in ItemsOf(kind) : CallDelete(it)

Spec == Init /\ [][Next]_vars

\* The mutating operations interleaved with the read-only operations.
NextQ ==
    \/ Next
    \/ \E it \in ItemsOf(kind) : CallFind(it)
    \/ \E it \in ItemsOf(kind) : CallLowerBound(it)
    \/ \E it \in ItemsOf(kind) : CallUpperBound(it)

SpecQ == Init /\ [][NextQ]_vars

----------------------------------------------------------------------------
\* Vocabulary of the properties.

\* Two items are equal if and only if neither is less than the other.
Equal(a, b) == ~Less(a, b) /\ ~Less(b, a)

\* Some node of the tree holds an item equal to it.
Contains(h, it) == \E n \in Reach(h) : Equal(h.item[n], it)

\* The number of black nodes on every path from n down to a sentinel leaf,
\* or -1 when two such paths disagree.
RECURSIVE BlackHeight(_, _, _)
BlackHeight(h, n, fuel) ==
    IF n = nilChild \/ n = NIL \/ fuel = 0 THEN 0
    ELSE LET l == BlackHeight(h, h.left[n], fuel - 1)
             r == BlackHeight(h, h.right[n], fuel - 1)
         IN IF l = -1 \/ r = -1 \/ l # r THEN -1
            ELSE l + (IF h.black[n] THEN 1 ELSE 0)

\* The nodes visited by First() and Next() until the iterator is End.
RECURSIVE IterateFrom(_, _, _)
IterateFrom(h, n, fuel) ==
    IF n = NIL \/ fuel = 0 THEN <<>>
    ELSE <<n>> \o IterateFrom(h, successor(h, n), fuel - 1)

Iterate(h) == IF Empty(h) THEN <<>> ELSE IterateFrom(h, min(h, h.root), MaxSize + 2)

\* The first node of the in-order sequence whose item is not less than t.
FirstNotLess(h, t) ==
    LET seq == InOrder(h)
        hits == {i \in 1..Len(seq) : ~Less(h.item[seq[i]], t)}
    IN IF hits = {} THEN End
       ELSE seq[CHOOSE i \in hits : \A j \in hits : i <= j]

----------------------------------------------------------------------------
\* C1: once a public mutating operation has returned, every path from the
\* root down to a sentinel leaf contains the same number of black nodes.
C1_EqualBlackHeight == BlackHeight(Heap, root, MaxSize + 2) # -1

\* A Delete has removed a node from a tree that still has black height two.
C1_Witness ==
    /\ last.op = "Delete" /\ last.ok
    /\ BlackHeight(Heap, root, MaxSize + 2) = 2

\* C2: once a public mutating operation has returned, no red node has a red
\* left or right child.
C2_NoRedRed ==
    \A n \in Reach(Heap) :
        ~black[n] => black[left[n]] /\ black[right[n]]

\* A Delete has returned and the tree holds a red node with two real children.
C2_Witness ==
    /\ last.op = "Delete" /\ last.ok
    /\ \E n \in Reach(Heap) :
           ~black[n] /\ left[n] # nilChild /\ right[n] # nilChild

\* C3: once a public mutating operation has returned, the tree is empty or
\* its root node is black.
C3_RootBlack == root = NIL \/ (root \in Slots /\ black[root])

\* A Delete has left a tree of one node.
C3_Witness == last.op = "Delete" /\ last.ok /\ size = 1 /\ root # NIL

\* C4: every real child of a reachable node points back to it with its parent
\* field, the root's parent is nil, and the root is the only reachable node
\* whose parent is nil.
C4_ParentPointers ==
    /\ \A p \in Reach(Heap) :
           /\ left[p] # nilChild => left[p] \in Slots /\ parent[left[p]] = p
           /\ right[p] # nilChild => right[p] \in Slots /\ parent[right[p]] = p
    /\ root # NIL => {n \in Reach(Heap) : parent[n] = NIL} = {root}

\* An operation has returned a tree of three levels.
C4_Witness ==
    /\ last.op \in {"Insert", "InsertUnique", "Delete"}
    /\ \E n \in Reach(Heap) : parent[n] # NIL /\ parent[parent[n]] # NIL

\* The change of size made by one call, by its name and its result.
SizeStep ==
    /\ last'.op = "Insert" => size' = size + 1
    /\ last'.op = "InsertUnique" => size' = size + (IF last'.ok THEN 1 ELSE 0)
    /\ last'.op = "InsertOrReplace" => size' = size + (IF last'.ok THEN 0 ELSE 1)
    /\ last'.op = "Delete" => size' = size - (IF last'.ok THEN 1 ELSE 0)
    /\ last'.op = "Clear" => size' = 0

\* C5: Size() equals the number of real nodes reachable from the root and the
\* number of steps of a First()/Next() traversal; it grows by one on each
\* successful insertion, shrinks by one on each successful Delete, is
\* unchanged by a failed InsertUnique, a replacing InsertOrReplace or a
\* failed Delete, and is zero after Clear.
C5_SizeConsistent ==
    /\ [](/\ size = Cardinality(Reach(Heap))
          /\ size = Len(Iterate(Heap)))
    /\ [][SizeStep]_vars

\* A failed Delete has returned on a tree that holds items.
C5_Witness == last.op = "Delete" /\ ~last.ok /\ ~fault /\ size >= 3

\* C6: the in-order traversal of the tree yields items in non-decreasing
\* order under Less.
C6_InOrderSorted ==
    LET seq == InOrder(Heap)
    IN \A i \in 1..(Len(seq) - 1) : ~Less(item[seq[i + 1]], item[seq[i]])

\* A multi-valued tree holds three equal items and a greater one.
C6_Witness ==
    /\ kind = "multi"
    /\ Cardinality({n \in Reach(Heap) : item[n] = <<1, 0>>}) = 3
    /\ \E n \in Reach(Heap) : item[n] = <<2, 0>>

\* C7: Find and Delete of an item that has no equal in the tree, the empty
\* tree included, do not fault, return (End, false) and nil, and leave the
\* tree unmodified.
C7_AbsentNoFault ==
    [][(last'.op \in {"Find", "Delete"} /\ ~Contains(Heap, last'.arg))
         => /\ ~fault'
            /\ ~last'.ok /\ last'.node = End /\ last'.item = NoItem
            /\ UNCHANGED heapVars]_vars

\* C8: in a unique tree, InsertUnique of an item equal to a stored item
\* returns false and changes no node, link, color, item or the size.
C8_DuplicateNoMutation ==
    [][(last'.op = "InsertUnique" /\ Contains(Heap, last'.arg))
         => ~last'.ok /\ UNCHANGED heapVars]_vars

\* A tree of several items has rejected a duplicate.
C8_Witness == last.op = "InsertUnique" /\ ~last.ok /\ size >= 3

\* C9: right after inserting v, Find(v) returns true with an item equal to v;
\* right after a successful Delete(v), Find(v) returns true exactly when an
\* item equal to v remains.
C9_RoundTrip ==
    LET r == Find(Heap, last.arg)
    IN /\ (\/ last.op = "Insert"
           \/ last.op = "InsertUnique" /\ last.ok
           \/ last.op = "InsertOrReplace")
          => ~r.panic /\ r.ok /\ Equal(item[r.node], last.arg)
       /\ (last.op = "Delete" /\ last.ok)
          => ~r.panic /\ (r.ok <=> Contains(Heap, last.arg))

\* C10: LowerBound(t) returns, without faulting, an iterator at the first
\* element of the in-order sequence that is not less than t, or End.
C10_LowerBound ==
    last.op = "LowerBound"
        => ~fault /\ last.node = FirstNotLess(Heap, last.arg)

\* The first node of the in-order sequence whose item is greater than t.
FirstGreater(h, t) ==
    LET seq == InOrder(h)
        hits == {i \in 1..Len(seq) : Less(t, h.item[seq[i]])}
    IN IF hits = {} THEN End
       ELSE seq[CHOOSE i \in hits : \A j \in hits : i <= j]

\* The nodes visited by an iterator that starts at n and is advanced with
\* Next() until it equals stop.
RECURSIVE IterateUntil(_, _, _, _)
IterateUntil(h, n, stop, fuel) ==
    IF n = stop \/ n = NIL \/ fuel = 0 THEN <<>>
    ELSE <<n>> \o IterateUntil(h, IteratorNext(h, n), stop, fuel - 1)

\* The nodes of the in-order sequence whose items x satisfy a <= x <= b.
Between(h, a, b) ==
    SelectSeq(InOrder(h), LAMBDA n : ~Less(h.item[n], a) /\ ~Less(b, h.item[n]))

\* C11: UpperBound(t) returns, without faulting, an iterator at the first
\* element greater than t, or End, on every tree, the empty one included;
\* iterating from LowerBound(a) until UpperBound(t), a <= t, visits exactly
\* the stored items x with a <= x <= t, duplicates included, in order.
C11_UpperBound ==
    last.op = "UpperBound"
        => /\ ~fault
           /\ last.node = FirstGreater(Heap, last.arg)
           /\ \A a \in ItemsOf(kind) :
                  ~Less(last.arg, a)
                      => LET lo == LowerBound(Heap, a)
                         IN /\ ~lo.panic
                            /\ IterateUntil(Heap, lo.node, last.node, MaxSize + 2)
                                   = Between(Heap, a, last.arg)

\* The items stored in the tree h, and the items met by a First()/Next()
\* traversal of h, in the order of the traversal.
Stored(h) == {h.item[n] : n \in Reach(h)}
Traversal(h) ==
    CHOOSE t \in {[i \in 1..Len(seq) |-> h.item[seq[i]]] : seq \in {Iterate(h)}} : TRUE

\* seq enumerates the set S in strictly increasing order.
SortedEnumeration(seq, S) ==
    /\ {seq[i] : i \in 1..Len(seq)} = S
    /\ \A i \in 1..(Len(seq) - 1) : Less(seq[i], seq[i + 1])

\* One call that takes the unique tree g to the tree gp, seen as a step of a
\* mathematical set.
SetStep(g, gp) ==
    \E S \in {Stored(g)} : \E Sp \in {Stored(gp)} : \E tr \in {Traversal(gp)} :
    /\ last'.op = "InsertUnique"
       => /\ last'.ok <=> ~Contains(g, last'.arg)
          /\ Sp = IF last'.ok THEN S \cup {last'.arg} ELSE S
    /\ last'.op = "Delete"
       => /\ ~fault'
          /\ last'.ok <=> Contains(g, last'.arg)
          /\ last'.ok => /\ Equal(last'.item, last'.arg)
                         /\ last'.item \in S
                         /\ Sp = S \ {last'.item}
          /\ ~last'.ok => Sp = S
    /\ SortedEnumeration(tr, Sp)

\* C12: a unique tree driven by Insert and Delete refines a set: Insert(v)
\* returns true exactly when no stored item equals v and then adds v,
\* Delete(v) returns a non-nil item equal to v exactly when one is stored and
\* then removes it, and after every call the First()..End() traversal is the
\* sorted enumeration of the set, so no two stored items are equal.
C12_RefinesSet ==
    [][(kind = "unique" /\ last'.op \in {"InsertUnique", "Delete"})
         => \E g \in {Heap} : \E gp \in {Heap'} : SetStep(g, gp)]_vars

\* The number of nodes of h that hold the item v, and the number of places
\* of the sequence seq that hold it.
Count(h, v) == Cardinality({n \in Reach(h) : h.item[n] = v})
Occurrences(seq, v) == Cardinality({i \in 1..Len(seq) : seq[i] = v})

\* One call that takes the multi-valued tree g to the tree gp, seen as a step
\* of a multiset.
MultisetStep(g, gp) ==
    \E tr \in {Traversal(gp)} :
    /\ last'.op = "Insert"
       => \A v \in IntItems :
              Count(gp, v) = Count(g, v) + (IF v = last'.arg THEN 1 ELSE 0)
    /\ (last'.op = "Delete" /\ Contains(g, last'.arg))
       => /\ ~fault'
          /\ last'.ok
          /\ Equal(last'.item, last'.arg)
          /\ \A v \in IntItems :
                 Count(gp, v) = Count(g, v) - (IF v = last'.item THEN 1 ELSE 0)
    /\ \A v \in IntItems : Occurrences(tr, v) = Count(gp, v)
    /\ Len(tr) = gp.size
    /\ \A i \in 1..(Len(tr) - 1) : ~Less(tr[i + 1], tr[i])

\* C13: a multi-valued tree refines a multiset: Insert(v) always adds one
\* occurrence of v, Delete(v) on a tree that holds an item equal to v returns
\* a non-nil item equal to v and removes exactly one occurrence, leaving the
\* other multiplicities unchanged, and after every call the traversal is the
\* sorted enumeration of the multiset.
C13_RefinesMultiset ==
    [][kind = "multi"
         => \E g \in {Heap} : \E gp \in {Heap'} : MultisetStep(g, gp)]_vars

\* A Delete has removed one of several equal items of a multi-valued tree
\* that also holds other items.
C13_Witness ==
    /\ kind = "multi" /\ last.op = "Delete" /\ last.ok
    /\ Count(Heap, last.item) >= 2
    /\ size >= 4

\* One InsertOrReplace call that takes the unique tree g to the tree gp.
ReplaceStep(g, gp) ==
    IF Contains(g, last'.arg)
    THEN \E n \in Reach(g) :
             /\ Equal(g.item[n], last'.arg)
             /\ last'.item = g.item[n]
             /\ gp = [g EXCEPT !.item[n] = last'.arg]
    ELSE \E r \in {InsertUnique(g, last'.arg)} :
             /\ r.ok
             /\ last'.item = NoItem
             /\ gp = Collect(r.h)
             /\ gp.size = g.size + 1

\* C14: InsertOrReplace(item) on a unique tree that holds an equal item stores
\* the new item in the node of the equal item and returns the item stored
\* before, and size, nodes, links and colors stay as they were; when no equal
\* item is stored it inserts like InsertUnique and returns nil.
C14_InsertOrReplace ==
    [][last'.op = "InsertOrReplace"
         => \E g \in {Heap} : \E gp \in {Heap'} : ReplaceStep(g, gp)]_vars

\* An InsertOrReplace has replaced an item by an equal item that differs from
\* it, in a tree of several items.
C14_Witness ==
    /\ last.op = "InsertOrReplace" /\ last.item # NoItem
    /\ last.item # last.arg
    /\ size >= 3

\* C15: Empty() is true exactly when Size() is 0; once Delete has removed the
\* last element the root is nil again, so Empty() is true; and the root never
\* designates the sentinel once a public operation has returned.
C15_EmptyIffSizeZero ==
    /\ Empty(Heap) <=> size = 0
    /\ root # nilChild
    /\ (last.op = "Delete" /\ last.ok /\ size = 0) => Empty(Heap)

\* A Delete has removed the last element of the tree.
C15_Witness == last.op = "Delete" /\ last.ok /\ size = 0 /\ Empty(Heap)

\* The nodes visited by Last() and Prev() until the iterator is End.
RECURSIVE IterateBackFrom(_, _, _)
IterateBackFrom(h, n, fuel) ==
    IF n = NIL \/ fuel = 0 THEN <<>>
    ELSE <<n>> \o IterateBackFrom(h, IteratorPrev(h, n), fuel - 1)

Forward(h) == IterateUntil(h, First(h), End, MaxSize + 2)
Backward(h) == IterateBackFrom(h, Last(h), MaxSize + 2)

Reverse(seq) == [i \in 1..Len(seq) |-> seq[Len(seq) + 1 - i]]

\* The iterations of the tree h: forward they visit the nodes of the
\* in-order sequence, each once, and are End after exactly Size() advances;
\* backward they visit the same nodes in the opposite order.
IterationsOf(h) ==
    \E seq \in {InOrder(h)} : \E f \in {Forward(h)} : \E b \in {Backward(h)} :
        /\ f = seq /\ Len(f) = h.size
        /\ \A i \in 1..(Len(f) - 1) : ~Less(h.item[f[i + 1]], h.item[f[i]])
        /\ b = Reverse(seq) /\ Len(b) = h.size
        /\ \A i \in 1..(Len(b) - 1) : ~Less(h.item[b[i]], h.item[b[i + 1]])
        /\ h.size = 0 => First(h) = End /\ Last(h) = End
        /\ h.size = 1 => successor(h, h.root) = NIL /\ predecessor(h, h.root) = NIL

\* C16: in every reachable tree of size n, First() followed by Next() visits
\* each element exactly once in non-decreasing order and is End after exactly
\* n advances, and Last() followed by Prev() does the same in non-increasing
\* order; on the empty tree First() and Last() equal End; in a tree of one
\* node the root has neither successor nor predecessor.
C16_Iteration == IterationsOf(Heap)

\* A Delete has left a tree of three levels with equal items in it.
C16_Witness ==
    /\ last.op = "Delete" /\ last.ok /\ size >= 4
    /\ \E n \in Reach(Heap) : parent[n] # NIL /\ parent[parent[n]] # NIL
    /\ \E n \in Reach(Heap) : \E m \in Reach(Heap) : n # m /\ item[n] = item[m]

\* The heap h with the sentinel's parent field as in a new process.
Blank(h) == [h EXCEPT !.parent[nilChild] = NIL]

\* The heap of a freshly created tree.
FreshHeap ==
    [black |-> [c \in Cells |-> c = nilChild], parent |-> [c \in Cells |-> NIL],
     left |-> [c \in Cells |-> NIL], right |-> [c \in Cells |-> NIL],
     item |-> [c \in Cells |-> NoItem], root |-> NIL, size |-> 0,
     nilWrites |-> {}, steps |-> <<>>]

\* The mutating operation named op applied to the heap g: the new heap, the
\* result, and whether the call panicked.
Apply(op, g, arg) ==
    CASE op = "Insert" ->
           [h |-> Insert(g, arg), ok |-> TRUE, item |-> NoItem, panic |-> FALSE]
      [] op = "InsertUnique" ->
           LET r == InsertUnique(g, arg)
           IN [h |-> r.h, ok |-> r.ok, item |-> NoItem, panic |-> FALSE]
      [] op = "InsertOrReplace" ->
           LET r == InsertOrReplace(g, arg)
           IN [h |-> r.h, ok |-> r.old # NoItem, item |-> r.old, panic |-> FALSE]
      [] op = "Clear" ->
           [h |-> Clear(g), ok |-> TRUE, item |-> NoItem, panic |-> FALSE]
      [] op = "Delete" ->
           LET r == Delete(g, arg)
           IN [h |-> r.h, ok |-> r.deleted # NoItem, item |-> r.deleted,
               panic |-> r.panic]

\* The step from g to gp is the step the same call makes from the heap that
\* differs from g in the sentinel's parent field only, with the same result
\* (there is no such other heap when the field is nil in g).
SameAsBlank(g, gp) ==
    \/ g.parent[nilChild] = NIL
    \/ \E b \in {Blank(g)} : \E r \in {Apply(last'.op, b, last'.arg)} :
       \E c \in {Collect(r.h)} :
           /\ Blank(c) = Blank(gp)
           /\ r.ok = last'.ok /\ r.item = last'.item /\ r.panic = fault'

\* C17: Clear() leaves the empty state: Empty() is true, Size() is 0, First()
\* equals End(), Min() and Max() are nil; and every sequence of operations
\* after Clear behaves as on a freshly created tree: the cleared tree differs
\* from a fresh one in the sentinel's parent field at most, and no operation's
\* result or effect depends on that field.
C17_ClearIsFresh ==
    /\ [](last.op = "Clear"
            => /\ Empty(Heap) /\ size = 0
               /\ First(Heap) = End /\ Last(Heap) = End
               /\ Min(Heap) = NoItem /\ Max(Heap) = NoItem
               /\ Blank(Heap) = FreshHeap)
    /\ [][\E g \in {Heap} : \E gp \in {Heap'} : SameAsBlank(g, gp)]_vars

\* A Clear has emptied a tree whose earlier Delete left the sentinel's parent
\* field set.
C17_Witness == last.op = "Clear" /\ parent[nilChild] # NIL

\* C18: Min() returns nil on the empty tree and otherwise a stored item m such
\* that no stored item is less than m; Max() returns nil on the empty tree
\* and otherwise a stored item m such that m is less than no stored item;
\* this holds in every reachable state, so also after a Delete of the current
\* minimum or maximum.
C18_MinMax ==
    \E g \in {Heap} : \E S \in {Stored(g)} :
        /\ Empty(g) => Min(g) = NoItem /\ Max(g) = NoItem
        /\ S = {} <=> Empty(g)
        /\ ~Empty(g) => /\ Min(g) \in S /\ \A x \in S : ~Less(x, Min(g))
                        /\ Max(g) \in S /\ \A x \in S : ~Less(Max(g), x)

\* A Delete has removed the minimum of a tree that still holds several items.
C18_Witness ==
    /\ last.op = "Delete" /\ last.ok /\ size >= 3
    /\ Less(last.item, Min(Heap))

\* What the call that takes g to gp has stored into the sentinel.
SentinelWrites(g) == Apply(last'.op, g, last'.arg).h.nilWrites

\* The sentinel's color, left, right and item fields hold in h what
\* &node{black: true} holds.
SentinelAsDeclared(h) ==
    /\ h.black[nilChild]
    /\ h.left[nilChild] = NIL /\ h.right[nilChild] = NIL
    /\ h.item[nilChild] = NoItem

\* The sentinel is immutable and always black: no call stores anything into
\* any of its fields, at any point.
C19_SentinelNeverWritten ==
    [][\E g \in {Heap} : \E gp \in {Heap'} : \E w \in {SentinelWrites(g)} :
           /\ w = {}
           /\ SentinelAsDeclared(gp)
           /\ gp.parent[nilChild] = g.parent[nilChild]]_vars

\* C19: the single shared sentinel is always black: no operation ever makes
\* it red, at any point of a call, and none changes its left, right or item
\* field (a store into one of them would leave a node pointer or an item
\* there, never nil).  Its parent field is not immutable: deleteNode and the
\* rotations store into it when the sentinel stands for the spliced child or
\* the orphan, and deleteNode stores black into its color when it removes
\* the last node.
C19_SentinelAlwaysBlack ==
    /\ [](SentinelAsDeclared(Heap))
    /\ [][\E g \in {Heap} : \E gp \in {Heap'} : \E w \in {SentinelWrites(g)} :
             /\ w \subseteq {"parent", "black"}
             /\ "black" \in w => last'.op = "Delete" /\ gp.size = 0
             /\ SentinelAsDeclared(gp)]_vars

\* A Delete has left the sentinel's parent field pointing at a node of the
\* tree.
C19_Witness ==
    /\ last.op = "Delete" /\ last.ok
    /\ parent[nilChild] \in Reach(Heap)

\* On the tree h, UpperBound(t) returns the successor of the node found by
\* the rightmost insertion search when takes(t, item of that node) holds, and
\* the node itself otherwise; nothing is said of a search that panics.
UpperBoundTakesSuccessor(h, t, takes(_, _)) ==
    \E u \in {UpperBound(h, t)} : \E r \in {getRightmostInsertionPoint(h, h.root, t)} :
        ~u.panic => u.node = IF takes(t, h.item[r.n]) THEN successor(h, r.n)
                              ELSE r.n

\* UpperBound(target) takes the successor of the node found by the rightmost
\* insertion search exactly when that node's item is not less than target,
\* and returns the node itself otherwise.
C20_SuccessorWhenNotLess ==
    \A t \in ItemsOf(kind) :
        UpperBoundTakesSuccessor(Heap, t, LAMBDA target, found : ~Less(found, target))

\* C20: UpperBound(target) runs the rightmost insertion search and, unless
\* the search panics on the empty tree, returns the successor of the node it
\* found exactly when that node's item is not greater than target (the item
\* is equal to target or less than it); otherwise, when target is less than
\* the item, it returns the found node itself.
C20_SuccessorWhenNotGreater ==
    \A t \in ItemsOf(kind) :
        UpperBoundTakesSuccessor(Heap, t, LAMBDA target, found : ~Less(target, found))

\* A tree of three levels, reached by a Delete, on which UpperBound finds for
\* some target a node whose item is less than the target and returns that
\* node's successor.
C20_Witness ==
    /\ last.op = "Delete" /\ last.ok
    /\ \E n \in Reach(Heap) : parent[n] # NIL /\ parent[parent[n]] # NIL
    /\ \E t \in ItemsOf(kind) :
           \E u \in {UpperBound(Heap, t)} :
           \E r \in {getRightmostInsertionPoint(Heap, root, t)} :
               /\ ~u.panic /\ u.node # End
               /\ Less(item[r.n], t)
               /\ u.node = successor(Heap, r.n)

\* The number of parent links from n up to the root of the heap h.
RECURSIVE Depth(_, _, _)
Depth(h, n, fuel) ==
    IF h.parent[n] = NIL \/ fuel = 0 THEN 0
    ELSE 1 + Depth(h, h.parent[n], fuel - 1)

\* The steps of the call that last' names, started from the heap g, and those
\* of them that have one of the given names.
StepsOf(g) == Apply(last'.op, g, last'.arg).h.steps
Only(steps, ops) == SelectSeq(steps, LAMBDA e : e.op \in ops)
Rotations == {"rotateLeftNoFixup", "rotateRightNoFixup"}

\* The iterations of balanceAfterDelete among the steps of one call: each but
\* the last goes on with the parent of its x, one level up, without having
\* rotated; the first starts at most as many levels below the root as there
\* are further iterations.
DeleteLoopClimbs(steps) ==
    \E D \in {Only(steps, {"balanceAfterDelete"})} :
        /\ \A i \in 1..(Len(D) - 1) :
               /\ D[i + 1].x = Parent(D[i].heap, D[i].x)
               /\ Depth(D[i + 1].heap, D[i + 1].x, MaxSize + 2)
                      = Depth(D[i].heap, D[i].x, MaxSize + 2) - 1
        /\ D # <<>> => Len(D) <= Depth(D[1].heap, D[1].x, MaxSize + 2) + 1
        /\ \A i \in 1..Len(steps) : \A j \in 1..Len(steps) :
               (steps[i].op \in Rotations /\ steps[j].op = "balanceAfterDelete")
                   => j < i

\* C21: balanceAfterDelete terminates on every call that deleteNode makes:
\* each iteration returns or goes on with x replaced by its parent, so x moves
\* strictly upward, no iteration follows a rotation, and the number of
\* iterations is at most the depth of the initial x plus one.
C21_DeleteLoopTerminates ==
    [][last'.op = "Delete"
         => \E g \in {Heap} : \E steps \in {StepsOf(g)} : DeleteLoopClimbs(steps)]_vars

\* A Delete has run the loop twice: the deficit moved from x up to its parent.
C21_Witness ==
    /\ last.op = "Delete" /\ last.ok
    /\ Len(SelectSeq(trail, LAMBDA op : op = "balanceAfterDelete")) >= 2

\* What the iteration of balanceAfterInsert at x finds in the heap h it starts
\* from: the root, a black parent, a red uncle, or a black uncle with x the
\* inner or the outer grandchild.
InsertCase(h, x) ==
    IF IsRoot(h, x) THEN "root"
    ELSE LET par == Parent(h, x) IN
    IF IsBlack(h, par) THEN "blackParent"
    ELSE LET gparent == Parent(h, par)
             uncle == IF IsLeftChildOf(h, par, gparent)
                      THEN h.right[gparent] ELSE h.left[gparent]
             inner == IF IsLeftChildOf(h, par, gparent)
                      THEN IsRightChildOf(h, x, par) ELSE IsLeftChildOf(h, x, par)
         IN IF IsRed(h, uncle) THEN "redUncle"
            ELSE IF inner THEN "inner" ELSE "outer"

\* The nodes at which the rotations among the given steps rotate, in order.
RotatedAt(steps) ==
    LET R == Only(steps, Rotations) IN [i \in 1..Len(R) |-> R[i].x]

\* The iterations and rotations of one call of balanceAfterInsert: every
\* iteration but the last finds a red uncle and only recolors; the last one
\* rotates not at all at the root or below a black parent, once at the
\* grandparent for an outer grandchild, and at the parent and then at the
\* grandparent for an inner grandchild; no iteration follows a rotation.
InsertLoopRotates(steps) ==
    \E I \in {Only(steps, {"balanceAfterInsert"})} : \E R \in {RotatedAt(steps)} :
        /\ \A i \in 1..(Len(I) - 1) :
               /\ InsertCase(I[i].heap, I[i].x) = "redUncle"
               /\ I[i + 1].x = Parent(I[i].heap, Parent(I[i].heap, I[i].x))
        /\ \A i \in 1..Len(steps) : \A j \in 1..Len(steps) :
               (steps[i].op \in Rotations /\ steps[j].op = "balanceAfterInsert")
                   => j < i
        /\ Len(R) <= 2
        /\ I = <<>> => R = <<>>
        /\ I # <<>> =>
               LET h == I[Len(I)].heap
                   x == I[Len(I)].x
                   c == InsertCase(h, x)
               IN /\ c \in {"root", "blackParent"} => R = <<>>
                  /\ c = "outer" => R = <<Parent(h, Parent(h, x))>>
                  /\ c = "inner" => R = <<Parent(h, x), Parent(h, Parent(h, x))>>
                  /\ c # "redUncle"

\* C22: one call of balanceAfterInsert performs at most two rotations: none
\* while it only recolors or stops at a black parent or at the root, one in
\* the outer-grandchild case, two in the inner-grandchild case; after the
\* rotation at the grandparent the loop returns and does not iterate again.
C22_InsertRotations ==
    [][last'.op \in {"Insert", "InsertUnique", "InsertOrReplace"}
         => \E g \in {Heap} : \E steps \in {StepsOf(g)} : InsertLoopRotates(steps)]_vars

\* An Insert into a tree of several levels has rotated twice, at the parent
\* and at the grandparent of the new inner grandchild.
C22_Witness ==
    /\ last.op \in {"Insert", "InsertUnique", "InsertOrReplace"}
    /\ size >= 5
    /\ Len(trail) = 3
    /\ trail[1] = "balanceAfterInsert"
    /\ trail[2] \in Rotations /\ trail[3] \in Rotations

\* The sequence seq without its k-th element.
Without(seq, k) ==
    [i \in 1..(Len(seq) - 1) |-> IF i < k THEN seq[i] ELSE seq[i + 1]]

\* The multi-valued Insert of it that takes the heap g to the heap h (with the
\* nodes named as in g) has added the node n: n is new, holds it, and stands
\* in the in-order sequence of h after every node whose item is not greater
\* than it and before every node whose item is greater, the other nodes in
\* their former order; if the insertion point holds an item equal to it, it
\* had no right child and the new node was attached as its right child.
AttachedRightmost(g, h, n, it) ==
    \E seq \in {InOrder(h)} : \E was \in {InOrder(g)} :
        /\ n \notin Reach(g) /\ h.item[n] = it
        /\ h.size = g.size + 1
        /\ \E k \in 1..Len(seq) :
               /\ seq[k] = n
               /\ Without(seq, k) = was
               /\ \A i \in 1..(k - 1) : ~Less(it, h.item[seq[i]])
               /\ \A i \in (k + 1)..Len(seq) : Less(it, h.item[seq[i]])
        /\ \A i \in 1..Len(was) : h.item[was[i]] = g.item[was[i]]
        /\ ~Empty(g) =>
               \E r \in {getRightmostInsertionPoint(g, g.root, it)} :
                   Equal(g.item[r.n], it)
                       => /\ ~HasRightChild(g, r.n)
                          /\ h.steps # <<>>
                          /\ h.steps[1].op = "balanceAfterInsert"
                          /\ h.steps[1].x = n
                          /\ h.steps[1].heap.right[r.n] = n
                          /\ h.steps[1].heap.parent[n] = r.n

\* C23: the multi-valued Insert(item) always adds a new node, at the
\* rightmost insertion point: right after the call the new node follows, in
\* the in-order traversal, every item stored before that is equal to item or
\* smaller, and precedes every greater item; when the insertion point's item
\* equals item, that node has no right child and the new node becomes its
\* right child.
C23_InsertRightmost ==
    [][last'.op = "Insert"
         => \E g \in {Heap} : \E h \in {Insert(g, last'.arg)} :
                /\ Heap' = Collect(h)
                /\ AttachedRightmost(g, h, FreshCell(g), last'.arg)]_vars

\* An Insert has added a third item equal to two stored ones, in a tree that
\* also holds a smaller and a greater item, and has rotated.
C23_Witness ==
    /\ kind = "multi" /\ last.op = "Insert"
    /\ Count(Heap, last.arg) >= 3
    /\ \E n \in Reach(Heap) : Less(item[n], last.arg)
    /\ \E n \in Reach(Heap) : Less(last.arg, item[n])
    /\ \E i \in 1..Len(trail) : trail[i] \in Rotations

====
